---- MODULE Spec2Model ----
(***************************************************************************)
(* SmtpSender (SJLTools/SMTPSender/SmtpSender.py): a builder that          *)
(* accumulates recipients, body fragments and attachments, renders one     *)
(* MIME multipart document and hands it to an SMTP session.                *)
(*                                                                         *)
(* Text is a sequence of atoms (TLA+ strings); the comma is an atom of its *)
(* own so that str.split(',') and ','.join() are computed, not assumed.    *)
(* The empty text '' is <<>>.  A list of texts is a sequence of texts.     *)
(***************************************************************************)
EXTENDS Integers, Sequences, FiniteSets, TLC

VARIABLES
    msg,        \* the SmtpSender instance: its fields
    transport,  \* what smtplib has been asked to do, in order
    calls       \* the calls made on the instance so far, with their results

vars == <<msg, transport, calls>>

---------------------------------------------------------------------------
(* Bounds of the model *)

MaxCalls == 3
MaxBodyCalls == 4
MaxConvCalls == 1

---------------------------------------------------------------------------
(* Text primitives of the Python runtime *)

Comma == <<",">>

\* str.split(','): n commas give n+1 tokens, empty tokens kept, '' gives ['']
RECURSIVE split(_)
split(s) ==
    IF \A i \in DOMAIN s : s[i] # ","
    THEN << s >>
    ELSE LET k == CHOOSE i \in DOMAIN s :
                      s[i] = "," /\ \A j \in 1..(i - 1) : s[j] # ","
         IN  << SubSeq(s, 1, k - 1) >> \o split(SubSeq(s, k + 1, Len(s)))

\* sep.join(list)
RECURSIVE join(_, _)
join(sep, list) ==
    IF list = <<>> THEN <<>>
    ELSE IF Len(list) = 1 THEN list[1]
    ELSE list[1] \o sep \o join(sep, Tail(list))

\* os.path.basename: what follows the last "/"
RECURSIVE basename(_)
basename(p) ==
    IF \A i \in DOMAIN p : p[i] # "/" THEN p
    ELSE basename(Tail(p))

\* an optional argument: None or a value
None == [some |-> FALSE, val |-> <<>>]
Some(v) == [some |-> TRUE, val |-> v]

---------------------------------------------------------------------------
(* Constants of the program *)

\* SmtpSender._template_html_header, the built-in stylesheet
template_html_header == <<"<style>built-in</style>">>

DefaultSendFrom == <<"do-not-reply@somewhere.org">>
DefaultSmtpServer == <<"smtp.host.address">>

\* the messages of the exceptions send_email raises
ErrNoTo == "An SMTP message must have a To: line address to be sent."
ErrNoFrom == "An SMTP message must have a From: line address to be sent."
ErrNoHost == "An SMTP message must have an SMTP host address to be sent."
ValidationErrors == {ErrNoTo, ErrNoFrom, ErrNoHost}

\* the messages of the exceptions send_email_message raises
ErrToType == "Address list for To line not recognized"
ErrCcType == "Address list for Cc line not recognized"
ErrBccType == "BCC address list not recognized"
InputTypeErrors == {ErrToType, ErrCcType, ErrBccType}

\* failures of the collaborators
ErrConnect == "smtplib: the session could not be opened"
ErrDelivery == "smtplib: sendmail failed"
ErrIO == "OSError: the attachment cannot be opened"
Ok == "ok"

---------------------------------------------------------------------------
(* The MIME document (email.mime) *)

Header(name, value) == [name |-> name, value |-> value]

\* MIMEMultipart("alternative"): the container's own two headers, no parts
MIMEMultipart ==
    [headers |-> << Header("Content-Type", <<"multipart/alternative">>),
                    Header("MIME-Version", <<"1.0">>) >>,
     parts   |-> <<>>]

MIMEText(text, subtype) ==
    [ctype |-> "text/" \o subtype, payload |-> text, filename |-> <<>>]

\* Message.__setitem__ of the default (compat32) policy appends a header
\* field; it does not replace one of the same name
set_header(doc, name, value) ==
    [doc EXCEPT !.headers = Append(@, Header(name, value))]

\* Message.attach appends a part to the container
attach(doc, part) == [doc EXCEPT !.parts = Append(@, part)]

\* Message.as_string: the header fields in order, then the parts in order
as_string(doc) == [headers |-> doc.headers, parts |-> doc.parts]

---------------------------------------------------------------------------
(* SmtpSender *)

\* __init__: the fields as initialised before the positional arguments
init_properties ==
    [sendFrom     |-> DefaultSendFrom,
     subject      |-> <<>>,
     smtp_server  |-> DefaultSmtpServer,
     to_addresses |-> <<>>,
     cc_addresses |-> <<>>,
     bcc_addresses |-> <<>>,
     recipients   |-> <<>>,
     smtp_message |-> MIMEMultipart,
     html_header  |-> <<>>,
     text_parts   |-> <<>>,
     html_parts   |-> <<>>]

add_plain_text(m, plain_text) ==
    [m EXCEPT !.text_parts = Append(@, plain_text)]

\* add_html_text taking the style of every call that gives one
add_html_text_last_style_wins(m, html_text, style_text) ==
    LET header == IF style_text.some THEN style_text.val
                  ELSE IF Len(m.html_header) = 0 THEN template_html_header
                  ELSE m.html_header
    IN  [m EXCEPT !.html_header = header,
                  !.html_parts  = Append(@, html_text)]

add_html_text(m, html_text, style_text) ==
    LET header == IF Len(m.html_header) = 0
                  THEN IF ~style_text.some THEN template_html_header
                       ELSE style_text.val
                  ELSE m.html_header
    IN  [m EXCEPT !.html_header = header,
                  !.html_parts  = Append(@, html_text)]

\* __init__(*args): the legacy positional arguments txt, html, subj, sendTo,
\* bcc, sendFrom, smtp_server, each a text, any prefix of them given
SmtpSender(args) ==
    LET m1 == IF Len(args) >= 1 THEN add_plain_text(init_properties, args[1])
              ELSE init_properties
        m2 == IF Len(args) >= 2 THEN add_html_text(m1, args[2], None) ELSE m1
        m3 == IF Len(args) >= 3 THEN [m2 EXCEPT !.subject = args[3]] ELSE m2
        to_list  == IF Len(args) >= 4 THEN split(args[4]) ELSE <<>>
        bcc_list == IF Len(args) >= 5 THEN split(args[5]) ELSE <<>>
        m6 == IF Len(args) >= 6 THEN [m3 EXCEPT !.sendFrom = args[6]] ELSE m3
        m7 == IF Len(args) >= 7 THEN [m6 EXCEPT !.smtp_server = args[7]] ELSE m6
        m8 == IF Len(to_list) # 0
              THEN [m7 EXCEPT !.recipients = to_list, !.to_addresses = to_list]
              ELSE m7
    IN  IF Len(bcc_list) # 0
        THEN [m8 EXCEPT !.recipients = @ \o bcc_list, !.bcc_addresses = bcc_list]
        ELSE m8

add_to_line_address(m, address) ==
    [m EXCEPT !.to_addresses = @ \o split(address),
              !.recipients   = @ \o split(address)]

add_cc_line_address(m, address) ==
    [m EXCEPT !.cc_addresses = @ \o split(address),
              !.recipients   = @ \o split(address)]

add_bcc_line_address(m, address) ==
    [m EXCEPT !.bcc_addresses = @ \o split(address),
              !.recipients    = @ \o split(address)]

\* the file part: base64 of the bytes read, Content-Disposition: attachment
file_part(file_path) ==
    [ctype    |-> "application/octet-stream",
     payload  |-> <<"base64">> \o file_path,
     filename |-> basename(file_path)]

\* attach_file: open() raises when the path cannot be read, before anything
\* is attached
attach_file(m, file_path, readable) ==
    IF ~readable
    THEN [msg |-> m, res |-> ErrIO]
    ELSE [msg |-> [m EXCEPT !.smtp_message = attach(@, file_part(file_path))],
          res |-> Ok]

set_to_addresses(m, value) ==
    [m EXCEPT !.to_addresses = value,
              !.recipients   = @ \o value]

set_cc_addresses(m, value) ==
    [m EXCEPT !.cc_addresses = value,
              !.recipients   = @ \o value]

\* the setter rebuilding recipients from the three lists
set_bcc_addresses_resync(m, value) ==
    [m EXCEPT !.bcc_addresses = value,
              !.recipients    = m.to_addresses \o m.cc_addresses \o value]

set_bcc_addresses(m, value) ==
    [m EXCEPT !.bcc_addresses = value,
              !.recipients    = @ \o value]

---------------------------------------------------------------------------
(* smtplib: what one `with smtplib.SMTP(host) as s: s.sendmail(...)` does *)

NoDoc == [headers |-> <<>>, parts |-> <<>>]
Event(ev, host, from, rcpts, doc) ==
    [ev |-> ev, host |-> host, from |-> from, rcpts |-> rcpts, doc |-> doc]

\* what the network does to one session
Net == {"up", "refused", "rejected"}

\* a session left open when sendmail raises
smtp_session_leaks_on_failure(host, from, rcpts, doc, net) ==
    IF net = "refused"
    THEN [res    |-> ErrConnect,
          events |-> << Event("connect_failed", host, <<>>, <<>>, NoDoc) >>]
    ELSE IF net = "rejected"
    THEN [res    |-> ErrDelivery,
          events |-> << Event("open", host, <<>>, <<>>, NoDoc),
                        Event("sendmail", host, from, rcpts, doc) >>]
    ELSE [res    |-> Ok,
          events |-> << Event("open", host, <<>>, <<>>, NoDoc),
                        Event("sendmail", host, from, rcpts, doc),
                        Event("close", host, <<>>, <<>>, NoDoc) >>]

\* SMTP(host) raises when the session cannot be opened, and nothing more is
\* done; otherwise sendmail is called once, and leaving the with block closes
\* the session whether or not sendmail raised
smtp_session(host, from, rcpts, doc, net) ==
    IF net = "refused"
    THEN [res    |-> ErrConnect,
          events |-> << Event("connect_failed", host, <<>>, <<>>, NoDoc) >>]
    ELSE [res    |-> IF net = "rejected" THEN ErrDelivery ELSE Ok,
          events |-> << Event("open", host, <<>>, <<>>, NoDoc),
                        Event("sendmail", host, from, rcpts, doc),
                        Event("close", host, <<>>, <<>>, NoDoc) >>]

---------------------------------------------------------------------------
(* SmtpSender.send_email *)

\* the assertions without the one on the host
validate_without_host(m) ==
    IF Len(m.to_addresses) = 0 THEN ErrNoTo
    ELSE IF Len(m.sendFrom) = 0 THEN ErrNoFrom
    ELSE Ok

\* the assertions at the head of send_email: the exception raised, or Ok
validate(m) ==
    IF Len(m.to_addresses) = 0 THEN ErrNoTo
    ELSE IF Len(m.sendFrom) = 0 THEN ErrNoFrom
    ELSE IF Len(m.smtp_server) = 0 THEN ErrNoHost
    ELSE Ok

\* the timestamp appended whatever the flag
stamp_subject_always(m, enable_subj_timestamp, timestamp_str) ==
    [m EXCEPT !.subject = @ \o <<" ">> \o timestamp_str]

\* the optional subject line timestamp
stamp_subject(m, enable_subj_timestamp, timestamp_str) ==
    IF enable_subj_timestamp
    THEN [m EXCEPT !.subject = @ \o <<" ">> \o timestamp_str]
    ELSE m

\* the header fields with a Bcc header for the BCC addresses
set_smtp_headers_with_bcc(m) ==
    LET d1 == set_header(m.smtp_message, "Subject", m.subject)
        d2 == set_header(d1, "From", m.sendFrom)
        d3 == set_header(d2, "To", join(Comma, m.to_addresses))
        d4 == IF Len(m.cc_addresses) > 0
              THEN set_header(d3, "Cc", join(Comma, m.cc_addresses))
              ELSE d3
        d5 == IF Len(m.bcc_addresses) > 0
              THEN set_header(d4, "Bcc", join(Comma, m.bcc_addresses))
              ELSE d4
    IN  [m EXCEPT !.smtp_message = d5]

\* the header fields send_email sets (no BCC header by design)
set_smtp_headers(m) ==
    LET d1 == set_header(m.smtp_message, "Subject", m.subject)
        d2 == set_header(d1, "From", m.sendFrom)
        d3 == set_header(d2, "To", join(Comma, m.to_addresses))
        d4 == IF Len(m.cc_addresses) > 0
              THEN set_header(d3, "Cc", join(Comma, m.cc_addresses))
              ELSE d3
    IN  [m EXCEPT !.smtp_message = d4]

\* the plain text part, if any
attach_text_part(m) ==
    IF Len(m.text_parts) > 0
    THEN [m EXCEPT !.smtp_message =
              attach(@, MIMEText(join(<<"\n">>, m.text_parts), "plain"))]
    ELSE m

\* the html part, if any
attach_html_part(m) ==
    IF Len(m.html_parts) > 0
    THEN [m EXCEPT !.smtp_message =
              attach(@, MIMEText(m.html_header \o <<"<BR>">>
                                     \o join(<<>>, m.html_parts), "html"))]
    ELSE m

\* the message as rendered by a send that passed the assertions
render(m, enable_subj_timestamp, timestamp_str) ==
    attach_html_part(attach_text_part(set_smtp_headers(
        stamp_subject(m, enable_subj_timestamp, timestamp_str))))

\* send_email stamping the subject before its assertions
send_email_stamps_first(m, enable_subj_timestamp, timestamp_str, net) ==
    LET m0 == stamp_subject(m, enable_subj_timestamp, timestamp_str)
    IN  IF validate(m) # Ok
        THEN [msg |-> m0, res |-> validate(m), events |-> <<>>]
        ELSE LET m1 == attach_html_part(attach_text_part(set_smtp_headers(m0)))
                 s  == smtp_session(m1.smtp_server, m1.sendFrom, m1.recipients,
                                    as_string(m1.smtp_message), net)
             IN  [msg |-> m1, res |-> s.res, events |-> s.events]

send_email(m, enable_subj_timestamp, timestamp_str, net) ==
    IF validate(m) # Ok
    THEN [msg |-> m, res |-> validate(m), events |-> <<>>]
    ELSE LET m1 == render(m, enable_subj_timestamp, timestamp_str)
             s  == smtp_session(m1.smtp_server, m1.sendFrom, m1.recipients,
                                as_string(m1.smtp_message), net)
         IN  [msg |-> m1, res |-> s.res, events |-> s.events]

---------------------------------------------------------------------------
(* send_email_message, the one-call helper *)

\* an address argument: its Python type and its value
Arg(type, val) == [type |-> type, val |-> val]
NoArg == Arg("NoneType", <<>>)

\* the list an address argument stands for (str: split on commas; list: itself)
address_list(a) == IF a.type = "str" THEN split(a.val) ELSE a.val

Supported(a) == a.type \in {"str", "list"}

\* the helper passing over a BCC argument it does not recognise
send_email_message_skips_bad_bcc(p, timestamp_str, net) ==
    LET m0 == SmtpSender(<<>>)
        m1 == set_to_addresses(m0, address_list(p.to_addresses))
        m2 == IF p.cc_addresses.type # "NoneType"
              THEN set_cc_addresses(m1, address_list(p.cc_addresses))
              ELSE m1
        m3 == IF Supported(p.bcc_addresses)
              THEN set_bcc_addresses(m2, address_list(p.bcc_addresses))
              ELSE m2
        m4 == IF p.from_address.some
              THEN [m3 EXCEPT !.sendFrom = p.from_address.val]
              ELSE m3
        m5 == [m4 EXCEPT !.subject = p.subject]
        m6 == add_html_text(m5, p.html_text, p.style)
    IN  IF ~Supported(p.to_addresses)
        THEN [msg |-> m0, res |-> ErrToType, events |-> <<>>]
        ELSE IF p.cc_addresses.type # "NoneType" /\ ~Supported(p.cc_addresses)
        THEN [msg |-> m1, res |-> ErrCcType, events |-> <<>>]
        ELSE send_email(m6, TRUE, timestamp_str, net)

send_email_message(p, timestamp_str, net) ==
    LET m0 == SmtpSender(<<>>)
        m1 == set_to_addresses(m0, address_list(p.to_addresses))
        m2 == IF p.cc_addresses.type # "NoneType"
              THEN set_cc_addresses(m1, address_list(p.cc_addresses))
              ELSE m1
        m3 == IF p.bcc_addresses.type # "NoneType"
              THEN set_bcc_addresses(m2, address_list(p.bcc_addresses))
              ELSE m2
        m4 == IF p.from_address.some
              THEN [m3 EXCEPT !.sendFrom = p.from_address.val]
              ELSE m3
        m5 == [m4 EXCEPT !.subject = p.subject]
        m6 == add_html_text(m5, p.html_text, p.style)
    IN  IF ~Supported(p.to_addresses)
        THEN [msg |-> m0, res |-> ErrToType, events |-> <<>>]
        ELSE IF p.cc_addresses.type # "NoneType" /\ ~Supported(p.cc_addresses)
        THEN [msg |-> m1, res |-> ErrCcType, events |-> <<>>]
        ELSE IF p.bcc_addresses.type # "NoneType" /\ ~Supported(p.bcc_addresses)
        THEN [msg |-> m2, res |-> ErrBccType, events |-> <<>>]
        ELSE send_email(m6, TRUE, timestamp_str, net)

---------------------------------------------------------------------------
(* Inputs *)

AddressInputs == { <<"a">>, <<"b", ",", "c">> }
AddressLists == { <<>>, << <<"a">>, <<"d">> >> }
SendFromInputs == { <<>>, <<"me@x">> }
SmtpServerInputs == { <<>>, <<"relay">> }
SubjectInputs == { <<"Subj">> }
PlainTexts == { <<"A">>, <<"B">> }
HtmlTexts == { <<"<p>1</p>">>, <<"<p>2</p>">> }
Styles == { None, Some(<<>>), Some(<<"custom">>) }
FilePaths == { <<"dir", "/", "f.jpg">> }
\* time.strftime('%Y-%m-%d %H:%M') at the moment of a send
Clock == { <<"2024-01-01 10:00">>, <<"2024-01-01 10:01">> }

ConstructorArgs ==
    { <<>>, << <<"A">>, <<"<p>1</p>">>, <<"Subj">>, <<"a", ",", "b">>, <<"c">> >> }

AddressArgs ==
    { Arg("str", <<"a", ",", "b">>), Arg("list", << <<"c">> >>),
      Arg("list", <<>>), Arg("tuple", << <<"e">> >>), NoArg }

Params ==
    [to_addresses : AddressArgs, subject : SubjectInputs, html_text : {<<"<p>hi</p>">>},
     style : {None}, from_address : {None, Some(<<"me@x">>)},
     cc_addresses : AddressArgs, bcc_addresses : AddressArgs]

---------------------------------------------------------------------------
(* The calls a client makes *)

Call(op, arg, res) == [op |-> op, arg |-> arg, res |-> res]

\* the instance as constructed; the construction is the first call recorded
Constructed(argsets) ==
    \E args \in argsets :
        /\ msg = SmtpSender(args)
        /\ transport = <<>>
        /\ calls = << Call("__init__", [args |-> args], Ok) >>

Init == Constructed(ConstructorArgs)

\* a call that cannot fail and touches only the builder
Built(op, arg, m) ==
    /\ msg' = m
    /\ calls' = Append(calls, Call(op, arg, Ok))
    /\ UNCHANGED transport

AddToLineAddress ==
    \E a \in AddressInputs :
        Built("add_to_line_address", [address |-> a], add_to_line_address(msg, a))

AddCcLineAddress ==
    \E a \in AddressInputs :
        Built("add_cc_line_address", [address |-> a], add_cc_line_address(msg, a))

AddBccLineAddress ==
    \E a \in AddressInputs :
        Built("add_bcc_line_address", [address |-> a], add_bcc_line_address(msg, a))

SetToAddresses ==
    \E v \in AddressLists :
        Built("to_addresses", [value |-> v], set_to_addresses(msg, v))

SetCcAddresses ==
    \E v \in AddressLists :
        Built("cc_addresses", [value |-> v], set_cc_addresses(msg, v))

SetBccAddresses ==
    \E v \in AddressLists :
        Built("bcc_addresses", [value |-> v], set_bcc_addresses(msg, v))

SetSendFrom ==
    \E v \in SendFromInputs :
        Built("sendFrom", [value |-> v], [msg EXCEPT !.sendFrom = v])

SetSmtpServer ==
    \E v \in SmtpServerInputs :
        Built("smtp_server", [value |-> v], [msg EXCEPT !.smtp_server = v])

SetSubject ==
    \E v \in SubjectInputs :
        Built("subject", [value |-> v], [msg EXCEPT !.subject = v])

AddPlainText ==
    \E t \in PlainTexts :
        Built("add_plain_text", [plain_text |-> t], add_plain_text(msg, t))

AddHtmlText ==
    \E t \in HtmlTexts, s \in Styles :
        Built("add_html_text", [html_text |-> t, style_text |-> s],
              add_html_text(msg, t, s))

AttachFile ==
    \E f \in FilePaths, readable \in BOOLEAN :
        LET r == attach_file(msg, f, readable)
        IN  /\ msg' = r.msg
            /\ calls' = Append(calls, Call("attach_file", [file_path |-> f], r.res))
            /\ UNCHANGED transport

SendEmail(flags, nets) ==
    \E ts \in flags, now \in Clock, net \in nets :
        LET r == send_email(msg, ts, now, net)
        IN  /\ msg' = r.msg
            /\ transport' = transport \o r.events
            /\ calls' = Append(calls, Call("send_email",
                   [enable_subj_timestamp |-> ts, timestamp_str |-> now], r.res))

\* the helper builds and sends a message of its own: the instance is untouched
SendEmailMessage ==
    \E p \in Params, now \in Clock, net \in Net :
        LET r == send_email_message(p, now, net)
        IN  /\ transport' = transport \o r.events
            /\ calls' = Append(calls, Call("send_email_message",
                   [params |-> p, timestamp_str |-> now, built |-> r.msg], r.res))
            /\ UNCHANGED msg

\* recipients, validation and delivery
Next ==
    /\ Len(calls) <= MaxCalls
    /\ \/ AddToLineAddress
       \/ AddCcLineAddress
       \/ AddBccLineAddress
       \/ SetToAddresses
       \/ SetCcAddresses
       \/ SetBccAddresses
       \/ SetSendFrom
       \/ SetSmtpServer
       \/ SetSubject
       \/ SendEmail(BOOLEAN, Net)

Spec == Init /\ [][Next]_vars

\* the body of the message: text, html, attachments, and what a send renders
NextBody ==
    /\ Len(calls) <= MaxBodyCalls
    /\ \/ \E a \in {<<"a">>} :
              Built("add_to_line_address", [address |-> a], add_to_line_address(msg, a))
       \/ AddPlainText
       \/ AddHtmlText
       \/ AttachFile
       \/ SendEmail({FALSE}, {"up"})

InitBody == Constructed({<<>>})

SpecBody == InitBody /\ [][NextBody]_vars

\* the one-call helper
NextConv ==
    /\ Len(calls) <= MaxConvCalls
    /\ SendEmailMessage

SpecConv == InitBody /\ [][NextConv]_vars

---------------------------------------------------------------------------
(* What the calls made so far say *)

LastCall == calls[Len(calls)]

AddOp(kind) == "add_" \o kind \o "_line_address"
SetOp(kind) == kind \o "_addresses"
AddressOps ==
    {AddOp("to"), AddOp("cc"), AddOp("bcc"), SetOp("to"), SetOp("cc"), SetOp("bcc")}

\* the addresses one call hands to the builder, in order
Tokens(c) ==
    IF c.op \in {AddOp("to"), AddOp("cc"), AddOp("bcc")} THEN split(c.arg.address)
    ELSE IF c.op \in {SetOp("to"), SetOp("cc"), SetOp("bcc")} THEN c.arg.value
    ELSE IF c.op = "__init__"
    THEN (IF Len(c.arg.args) >= 4 THEN split(c.arg.args[4]) ELSE <<>>)
         \o (IF Len(c.arg.args) >= 5 THEN split(c.arg.args[5]) ELSE <<>>)
    ELSE <<>>

\* the concatenation, in call order, of what the first n calls handed over
RECURSIVE AddressLog(_)
AddressLog(n) ==
    IF n = 0 THEN <<>> ELSE AddressLog(n - 1) \o Tokens(calls[n])

\* one address list after the first n calls: an add appends, a set replaces
RECURSIVE ListAfter(_, _)
ListAfter(kind, n) ==
    IF n = 0 THEN <<>>
    ELSE LET c == calls[n]
             before == ListAfter(kind, n - 1)
         IN  IF c.op = AddOp(kind) THEN before \o split(c.arg.address)
             ELSE IF c.op = SetOp(kind) THEN c.arg.value
             ELSE IF c.op = "__init__" /\ kind = "to" /\ Len(c.arg.args) >= 4
             THEN split(c.arg.args[4])
             ELSE IF c.op = "__init__" /\ kind = "bcc" /\ Len(c.arg.args) >= 5
             THEN split(c.arg.args[5])
             ELSE before

Range(f) == {f[i] : i \in DOMAIN f}

Validated(c) == c.op = "send_email" /\ c.res \notin ValidationErrors
Delivered(c) == c.op = "send_email" /\ c.res \in {Ok, ErrDelivery}

\* the delivery call of the send just made (its session is open, sendmail, close)
LastDelivery == transport[Len(transport) - 1]

---------------------------------------------------------------------------
(* C1: recipients is an append-only log of every address operation: it is  *)
(* the concatenation, in call order, of the comma-split tokens of each add *)
(* and of the whole list of each bulk set (duplicates and the entries of   *)
(* earlier bulk sets kept), while each address list itself is what the     *)
(* adds appended since the last bulk set of that list.                     *)
C1_RecipientsAppendOnly ==
    /\ msg.recipients = AddressLog(Len(calls))
    /\ msg.to_addresses = ListAfter("to", Len(calls))
    /\ msg.cc_addresses = ListAfter("cc", Len(calls))
    /\ msg.bcc_addresses = ListAfter("bcc", Len(calls))

\* a list bulk-set twice with a two-token add between: the second set empties
\* the list and the recipients keep all four earlier entries
C1_Witness ==
    /\ Len(calls) = 4
    /\ calls[2].op = "bcc_addresses" /\ Len(calls[2].arg.value) = 2
    /\ calls[3].op = "add_bcc_line_address" /\ Len(split(calls[3].arg.address)) = 2
    /\ calls[4].op = "bcc_addresses" /\ calls[4].arg.value = <<>>
    /\ msg.bcc_addresses = <<>>
    /\ Len(msg.recipients) = 4

---------------------------------------------------------------------------
(* C2: a send that reaches the transport hands over a document with no Bcc *)
(* header field, whose To header (and Cc header, set only when there are   *)
(* Cc addresses) written by this send is the comma-joined to_addresses     *)
(* (cc_addresses), and an envelope recipient list that holds every address *)
(* added or bulk-set as BCC.                                               *)
C2_BccOnlyInEnvelope ==
    Delivered(LastCall) =>
        LET e == LastDelivery
            h == e.doc.headers
            n == Len(h)
        IN  /\ e.ev = "sendmail"
            /\ \A i \in DOMAIN h : h[i].name # "Bcc"
            /\ IF Len(msg.cc_addresses) > 0
               THEN /\ h[n] = Header("Cc", join(Comma, msg.cc_addresses))
                    /\ h[n - 1] = Header("To", join(Comma, msg.to_addresses))
               ELSE h[n] = Header("To", join(Comma, msg.to_addresses))
            /\ \A i \in DOMAIN calls :
                   calls[i].op \in {AddOp("bcc"), SetOp("bcc")} =>
                       Range(Tokens(calls[i])) \subseteq Range(e.rcpts)
            /\ Range(ListAfter("bcc", 1)) \subseteq Range(e.rcpts)

\* a delivered message with a BCC address that is on neither the To nor the
\* Cc line
C2_Witness ==
    /\ Delivered(LastCall)
    /\ \E i \in DOMAIN calls : calls[i].op \in {AddOp("bcc"), SetOp("bcc")}
    /\ \E b \in Range(msg.bcc_addresses) :
           b \notin Range(msg.to_addresses) \cup Range(msg.cc_addresses)

---------------------------------------------------------------------------
\* the step just taken is a call of send_email
SendStep ==
    /\ Len(calls') = Len(calls) + 1
    /\ calls'[Len(calls')].op = "send_email"

\* the validation errors that name a field missing from m
MissingFieldErrors(m) ==
    (IF Len(m.to_addresses) = 0 THEN {ErrNoTo} ELSE {})
        \cup (IF Len(m.sendFrom) = 0 THEN {ErrNoFrom} ELSE {})
        \cup (IF Len(m.smtp_server) = 0 THEN {ErrNoHost} ELSE {})

(* C3: send_email called with to_addresses empty, or sendFrom empty, or    *)
(* smtp_server empty fails with a validation error that names a field      *)
(* which is missing, the three messages being pairwise distinct, and the   *)
(* transport is not touched: no session is opened, no delivery call made.  *)
C3_ValidationFailsBeforeTransport ==
    [][(SendStep /\ MissingFieldErrors(msg) # {}) =>
           /\ calls'[Len(calls')].res \in MissingFieldErrors(msg)
           /\ Cardinality({ErrNoTo, ErrNoFrom, ErrNoHost}) = 3
           /\ transport' = transport]_vars

\* a send refused for the missing host alone
C3_Witness ==
    /\ LastCall.op = "send_email" /\ LastCall.res = ErrNoHost
    /\ MissingFieldErrors(msg) = {ErrNoHost}
    /\ Len(msg.to_addresses) > 0 /\ Len(msg.sendFrom) > 0
    /\ transport = <<>>

---------------------------------------------------------------------------
\* the subject after the first n calls: set by the constructor or by
\* assignment, and extended by each send that passed validation with the
\* timestamp enabled
RECURSIVE SubjectAfter(_)
SubjectAfter(n) ==
    IF n = 0 THEN <<>>
    ELSE LET c == calls[n]
             before == SubjectAfter(n - 1)
         IN  IF c.op = "__init__" THEN (IF Len(c.arg.args) >= 3 THEN c.arg.args[3] ELSE <<>>)
             ELSE IF c.op = "subject" THEN c.arg.value
             ELSE IF Validated(c) /\ c.arg.enable_subj_timestamp
             THEN before \o <<" ">> \o c.arg.timestamp_str
             ELSE before

StampedSends == {i \in DOMAIN calls : Validated(calls[i]) /\ calls[i].arg.enable_subj_timestamp}

(* C5: each send that passes validation with the timestamp enabled         *)
(* replaces the subject by its previous value, one space and the current   *)
(* timestamp, so after k such sends the subject carries k suffixes; a send *)
(* with the timestamp disabled, or one that fails validation, leaves it.   *)
C5_SubjectTimestamps ==
    /\ msg.subject = SubjectAfter(Len(calls))
    /\ (\A i \in DOMAIN calls : calls[i].op # "subject") =>
           Len(msg.subject) = Len(SubjectAfter(1)) + 2 * Cardinality(StampedSends)

\* two stamped sends at different minutes, then one with the timestamp off
C5_Witness ==
    /\ Len(calls) = 4
    /\ StampedSends = {2, 3}
    /\ calls[2].arg.timestamp_str # calls[3].arg.timestamp_str
    /\ Validated(calls[4]) /\ ~calls[4].arg.enable_subj_timestamp
    /\ msg.subject = <<"Subj", " ">> \o calls[2].arg.timestamp_str
                         \o <<" ">> \o calls[3].arg.timestamp_str

---------------------------------------------------------------------------
Count(ev) == Cardinality({i \in DOMAIN transport : transport[i].ev = ev})
ValidatedSends == {i \in DOMAIN calls : Validated(calls[i])}

\* every session opened is open, one sendmail, close, with nothing between
SessionsWellFormed ==
    \A i \in DOMAIN transport :
        /\ transport[i].ev = "open" =>
               /\ i + 2 <= Len(transport)
               /\ transport[i + 1].ev = "sendmail"
               /\ transport[i + 2].ev = "close"
        /\ transport[i].ev = "sendmail" => i > 1 /\ transport[i - 1].ev = "open"
        /\ transport[i].ev = "close" => i > 2 /\ transport[i - 1].ev = "sendmail"

\* the delivery call of the send just made carries sendFrom, the full
\* recipients list and the serialized message
LastDeliveryArgs ==
    Delivered(LastCall) =>
        /\ Len(transport) >= 3
        /\ LastDelivery = Event("sendmail", msg.smtp_server, msg.sendFrom,
                                msg.recipients, as_string(msg.smtp_message))
        /\ transport[Len(transport)].ev = "close"

(* C6 as stated: every send that passes validation opens exactly one       *)
(* session, makes exactly one delivery call on it and closes it.           *)
C6_Original ==
    /\ SessionsWellFormed
    /\ LastDeliveryArgs
    /\ Count("open") = Cardinality(ValidatedSends)
    /\ Count("sendmail") = Cardinality(ValidatedSends)
    /\ Count("close") = Cardinality(ValidatedSends)

(* C6 as amended: every send that passes validation tries to open exactly  *)
(* one session.  When the session opens, exactly one delivery call is made *)
(* on it with (sendFrom, the full recipients, the serialized message) and  *)
(* the session is closed before send returns, also when the delivery call  *)
(* fails; the failure is the result of the send, and nothing is retried.   *)
(* When the session cannot be opened, that failure is the result of the    *)
(* send and no delivery call is made.                                      *)
C6_OneSessionAlwaysClosed ==
    /\ SessionsWellFormed
    /\ LastDeliveryArgs
    /\ Count("open") + Count("connect_failed") = Cardinality(ValidatedSends)
    /\ Count("sendmail") = Count("open")
    /\ Count("close") = Count("open")
    /\ Count("open") = Cardinality({i \in DOMAIN calls : Delivered(calls[i])})
    /\ Count("connect_failed") =
           Cardinality({i \in ValidatedSends : calls[i].res = ErrConnect})
    /\ (LastCall.op = "send_email" /\ LastCall.res = ErrConnect) =>
           transport[Len(transport)].ev = "connect_failed"

\* a send whose delivery call failed, after one whose session never opened
C6_Witness ==
    /\ LastCall.op = "send_email" /\ LastCall.res = ErrDelivery
    /\ \E i \in DOMAIN calls : calls[i].op = "send_email" /\ calls[i].res = ErrConnect
    /\ transport[Len(transport)].ev = "close"

---------------------------------------------------------------------------
(* C10: a send that fails validation leaves the builder exactly as it was: *)
(* subject (no timestamp, even when it is enabled), the address lists,     *)
(* recipients, the text and html fragments, the stylesheet header and the  *)
(* headers and parts of the MIME document.                                 *)
C10_FailedValidationChangesNothing ==
    [][(SendStep /\ calls'[Len(calls')].res \in ValidationErrors) => msg' = msg]_vars

\* a refused send with the timestamp enabled on a builder that holds text,
\* html, a subject and recipients: once the host is set again the subject
\* is unstamped and the document holds only the container's own two headers
C10_Witness ==
    /\ Len(calls) = 4
    /\ calls[2].op = "smtp_server"
    /\ calls[3].op = "send_email" /\ calls[3].res = ErrNoHost
    /\ calls[3].arg.enable_subj_timestamp
    /\ Len(msg.text_parts) > 0 /\ Len(msg.html_parts) > 0
    /\ calls[4].op = "smtp_server"
    /\ msg.subject = <<"Subj">>
    /\ Len(msg.smtp_message.headers) = 2

---------------------------------------------------------------------------
HtmlCalls == {i \in DOMAIN calls : calls[i].op = "add_html_text"}

\* the style a call of add_html_text asks for: its argument, or the built-in
\* stylesheet when none is given
StyleOf(c) == IF c.arg.style_text.some THEN c.arg.style_text.val ELSE template_html_header

Min(S) == CHOOSE i \in S : \A j \in S : i <= j

\* the html fragments handed over by the first n calls, in call order
RECURSIVE FragmentsAfter(_)
FragmentsAfter(n) ==
    IF n = 0 THEN <<>>
    ELSE IF calls[n].op = "add_html_text"
    THEN Append(FragmentsAfter(n - 1), calls[n].arg.html_text)
    ELSE FragmentsAfter(n - 1)

\* the html part of the send just made is the header, a line break, then
\* the fragments with nothing between them
HtmlPartRendered ==
    (Delivered(LastCall) /\ HtmlCalls # {}) =>
        LET parts == LastDelivery.doc.parts
        IN  /\ Len(parts) > 0
            /\ parts[Len(parts)].ctype = "text/html"
            /\ parts[Len(parts)].payload =
                   msg.html_header \o <<"<BR>">> \o join(<<>>, FragmentsAfter(Len(calls)))

(* C4 as stated: the stylesheet header is fixed by the first add_html_text *)
(* call, whatever the style arguments of that call and of the later ones.  *)
C4_Original ==
    /\ msg.html_parts = FragmentsAfter(Len(calls))
    /\ msg.html_header = (IF HtmlCalls = {} THEN <<>> ELSE StyleOf(calls[Min(HtmlCalls)]))
    /\ HtmlPartRendered

(* C4 as amended: the stylesheet header is fixed by the first              *)
(* add_html_text call whose style (its style argument, or the built-in     *)
(* default when none is given) is not the empty string; calls before it    *)
(* leave the header empty, calls after it leave it unchanged, and every    *)
(* call appends its fragment to html_parts, so the rendered html part is   *)
(* that header, a line break, then all fragments in call order.            *)
C4_HeaderFixedByFirstNonEmptyStyle ==
    LET styled == {i \in HtmlCalls : StyleOf(calls[i]) # <<>>}
    IN  /\ msg.html_parts = FragmentsAfter(Len(calls))
        /\ msg.html_header = (IF styled = {} THEN <<>> ELSE StyleOf(calls[Min(styled)]))
        /\ HtmlPartRendered

\* two calls, the first with the empty string as its style and the second
\* with a custom style, then a delivery: the header is the custom style
C4_Witness ==
    /\ Delivered(LastCall)
    /\ Cardinality(HtmlCalls) = 2
    /\ calls[Min(HtmlCalls)].arg.style_text = Some(<<>>)
    /\ \E i \in HtmlCalls : calls[i].arg.style_text = Some(<<"custom">>)
    /\ msg.html_header = <<"custom">>
    /\ Len(msg.html_parts) = 2

---------------------------------------------------------------------------
Deliveries == {i \in DOMAIN transport : transport[i].ev = "sendmail"}

\* the place the spec gives a part in the container
Rank(part) ==
    IF part.ctype = "text/plain" THEN 1
    ELSE IF part.ctype = "text/html" THEN 2
    ELSE 3

(* C8: in every document handed to the transport the parts come in the     *)
(* order plain text, html, file attachments, whatever the order of the     *)
(* attach_file, add_plain_text and add_html_text calls before the send.    *)
C8_PartsOrdered ==
    \A i \in Deliveries :
        LET parts == transport[i].doc.parts
        IN  \A j, k \in DOMAIN parts : j < k => Rank(parts[j]) <= Rank(parts[k])

---------------------------------------------------------------------------
HeaderCount(doc, name) ==
    Cardinality({i \in DOMAIN doc.headers : doc.headers[i].name = name})
PartCount(doc, ctype) ==
    Cardinality({i \in DOMAIN doc.parts : doc.parts[i].ctype = ctype})

(* C9: the document handed to the transport by any send on a builder, the  *)
(* first or a later one, holds exactly one Subject, one From and one To    *)
(* header, at most one text/plain and at most one text/html part.          *)
C9_EverySendRendersAfresh ==
    \A i \in Deliveries :
        LET doc == transport[i].doc
        IN  /\ HeaderCount(doc, "Subject") = 1
            /\ HeaderCount(doc, "From") = 1
            /\ HeaderCount(doc, "To") = 1
            /\ PartCount(doc, "text/plain") <= 1
            /\ PartCount(doc, "text/html") <= 1

---------------------------------------------------------------------------
\* the step just taken is a call of send_email_message
HelperStep ==
    /\ Len(calls') = Len(calls) + 1
    /\ calls'[Len(calls')].op = "send_email_message"

\* an address argument that was supplied and is neither a string nor a list;
\* the To argument is always supplied, None stands for an omitted Cc or BCC
Unsupported(a, optional) ==
    a.type \notin (IF optional THEN {"str", "list", "NoneType"} ELSE {"str", "list"})

(* C7: send_email_message takes each of its to, cc and bcc arguments as a  *)
(* comma-delimited string or as a list.  When a supplied address argument  *)
(* has another type the call fails with the input-type error of the first  *)
(* such argument and the transport has not been touched; when none has,    *)
(* no input-type error is raised and the lists are the split string or the *)
(* list given.                                                             *)
C7_UnsupportedAddressType ==
    [][HelperStep =>
           LET c == calls'[Len(calls')]
               p == c.arg.params
           IN  /\ Unsupported(p.to_addresses, FALSE) =>
                      c.res = ErrToType /\ transport' = transport
               /\ (~Unsupported(p.to_addresses, FALSE)
                     /\ Unsupported(p.cc_addresses, TRUE)) =>
                      c.res = ErrCcType /\ transport' = transport
               /\ (~Unsupported(p.to_addresses, FALSE)
                     /\ ~Unsupported(p.cc_addresses, TRUE)
                     /\ Unsupported(p.bcc_addresses, TRUE)) =>
                      c.res = ErrBccType /\ transport' = transport
               /\ (~Unsupported(p.to_addresses, FALSE)
                     /\ ~Unsupported(p.cc_addresses, TRUE)
                     /\ ~Unsupported(p.bcc_addresses, TRUE)) =>
                      /\ c.res \notin InputTypeErrors
                      /\ c.arg.built.to_addresses =
                             (IF p.to_addresses.type = "str"
                              THEN split(p.to_addresses.val) ELSE p.to_addresses.val)
                      /\ Cardinality({ErrToType, ErrCcType, ErrBccType}) = 3]_vars

\* the BCC argument alone is a tuple, To is a string and Cc a list
C7_Witness ==
    /\ LastCall.op = "send_email_message"
    /\ LastCall.arg.params.to_addresses.type = "str"
    /\ LastCall.arg.params.cc_addresses.type = "list"
    /\ LastCall.arg.params.bcc_addresses.type = "tuple"
    /\ LastCall.res = ErrBccType
    /\ transport = <<>>

====
